---- MODULE Spec2Model ----
(***************************************************************************)
(* Model of src/audio-extractor/app.py: a Flask service that stores an     *)
(* uploaded video, converts it to WAV, transcribes it and appends the      *)
(* transcription to a master transcript.                                   *)
(*                                                                         *)
(* Strings are sequences of tokens.  A token is one character ("." "_"     *)
(* " " "/" or a decimal digit) or a maximal run of letters ("clip",        *)
(* "mp4").  No helper ever looks inside a run of letters except lower().   *)
(***************************************************************************)
EXTENDS Integers, Sequences, FiniteSets, TLC

\* ------------------------------------------------------------------ bounds
MaxRequests == 2
MaxClock == 1

\* --------------------------------------------------------- string helpers
DOT == "."
USCORE == "_"
SPACE == " "
SEP == "/"

Digits == <<"0", "1", "2", "3", "4", "5", "6", "7", "8", "9">>

RECURSIVE Str(_)
\* f"{counter}": decimal digits of a natural number
Str(n) ==
  IF n < 10 THEN <<Digits[n + 1]>>
  ELSE Str(n \div 10) \o <<Digits[(n % 10) + 1]>>

\* str.lower() on one token
LowerTok(t) ==
  CASE t = "MP4" -> "mp4"
    [] t = "AVI" -> "avi"
    [] t = "MOV" -> "mov"
    [] t = "WAV" -> "wav"
    [] t = "MKV" -> "mkv"
    [] t = "MP3" -> "mp3"
    [] OTHER -> t

Lower(s) == [i \in 1..Len(s) |-> LowerTok(s[i])]

\* index of the last occurrence of token c in s, 0 when there is none
LastIndex(s, c) ==
  IF \E i \in 1..Len(s) : s[i] = c
  THEN CHOOSE i \in 1..Len(s) : s[i] = c /\ \A j \in (i + 1)..Len(s) : s[j] # c
  ELSE 0

RECURSIVE LStrip(_, _)
LStrip(s, chars) ==
  IF s # <<>> /\ Head(s) \in chars THEN LStrip(Tail(s), chars) ELSE s

RECURSIVE RStrip(_, _)
RStrip(s, chars) ==
  IF s # <<>> /\ s[Len(s)] \in chars THEN RStrip(SubSeq(s, 1, Len(s) - 1), chars) ELSE s

\* str.strip(chars)
Strip(s, chars) == RStrip(LStrip(s, chars), chars)

\* os.path.splitext: the extension starts at the last dot of the last path
\* component, unless that component has only dots before it
splitext(p) ==
  LET sepIndex == LastIndex(p, SEP)
      dotIndex == LastIndex(p, DOT)
  IN IF dotIndex > sepIndex /\ \E k \in (sepIndex + 1)..(dotIndex - 1) : p[k] # DOT
     THEN <<SubSeq(p, 1, dotIndex - 1), SubSeq(p, dotIndex, Len(p))>>
     ELSE <<p, <<>>>>

\* werkzeug.utils.secure_filename on names made of letters, digits, "." "_"
\* " " and "/": separators become spaces, whitespace runs become "_", and
\* leading and trailing "." and "_" are stripped
RECURSIVE SepToUscore(_)
SepToUscore(s) ==
  IF s = <<>> THEN <<>>
  ELSE IF Head(s) \in {SEP, SPACE}
       THEN IF Tail(s) # <<>> /\ Head(Tail(s)) \in {SEP, SPACE}
            THEN SepToUscore(Tail(s))
            ELSE <<USCORE>> \o SepToUscore(Tail(s))
       ELSE <<Head(s)>> \o SepToUscore(Tail(s))

secure_filename(filename) ==
  Strip(SepToUscore(Strip(filename, {SEP, SPACE})), {DOT, USCORE})

\* datetime.now().strftime("%Y%m%d_%H%M%S"): the date, "_", the time of day
strftime_compact(t) == <<"20250101", USCORE>> \o Str(t)

\* datetime.now().strftime("%Y-%m-%d %H:%M:%S")
strftime_iso(t) == <<"2025-01-01", SPACE>> \o Str(t)

\* ----------------------------------------------------------- configuration
ALLOWED_EXTENSIONS == {"mp4", "avi", "mov", "mkv", "mp3", "wav"}
EXT_MP4 == <<DOT, "mp4">>
EXT_WAV == <<DOT, "wav">>
EXT_TXT == <<DOT, "txt">>

\* allowed_file without the extension test
allowed_file_any_extension(filename) == LastIndex(filename, DOT) > 0

\* allowed_file: '.' in filename and filename.rsplit('.', 1)[1].lower() in
\* ALLOWED_EXTENSIONS
allowed_file(filename) ==
  LET d == LastIndex(filename, DOT)
  IN /\ d > 0
     /\ Lower(SubSeq(filename, d + 1, Len(filename))) \in {<<e>> : e \in ALLOWED_EXTENSIONS}

\* the candidate f"{name}_{counter}{extension}" (counter 0: f"{name}{extension}")
Candidate(name, counter, extension) ==
  IF counter = 0 THEN name \o extension
  ELSE name \o <<USCORE>> \o Str(counter) \o extension

RECURSIVE ProbeFrom(_, _, _, _, _)
\* the while loop of get_unique_filename: folder is the set of existing names
ProbeFrom(name, extension, folder, new_filename, counter) ==
  IF new_filename \in folder
  THEN ProbeFrom(name, extension, folder, Candidate(name, counter, extension), counter + 1)
  ELSE new_filename

\* get_unique_filename without the existence loop
get_unique_filename_no_probe(base_name, extension, folder) ==
  splitext(base_name)[1] \o extension

get_unique_filename(base_name, extension, folder) ==
  LET name == splitext(base_name)[1]
  IN ProbeFrom(name, extension, folder, name \o extension, 1)

\* ------------------------------------------------------------ file system
\* a folder is a function from the names of its files to their contents
EmptyFolder == [n \in {} |-> 0]

\* exclusive creation (mode 'x'): an existing file is left as it is
FileSave_exclusive(folder, name, content) ==
  IF name \in DOMAIN folder THEN folder
  ELSE [n \in (DOMAIN folder) \cup {name} |-> IF n = name THEN content ELSE folder[n]]

\* open(path, 'w') / file.save / ffmpeg overwrite_output: create or replace
FileSave(folder, name, content) ==
  [n \in (DOMAIN folder) \cup {name} |-> IF n = name THEN content ELSE folder[n]]

\* convert_to_wav: acodec pcm_s16le, ac=1, ar=16000
convert_to_wav(input) ==
  [src |-> input, nchannels |-> 1, sampwidth |-> 2, comptype |-> "NONE", complete |-> TRUE]

\* what a failing ffmpeg run may leave at the output path
PartialWav(input) ==
  [src |-> input, nchannels |-> 1, sampwidth |-> 2, comptype |-> "NONE", complete |-> FALSE]

RECURSIVE Join(_)
\* " ".join(texts)
Join(texts) ==
  IF texts = <<>> THEN <<>>
  ELSE IF Len(texts) = 1 THEN texts[1]
  ELSE texts[1] \o <<SPACE>> \o Join(Tail(texts))

RECURSIVE TextsOf(_)
\* [result['text'] for result in results if 'text' in result]
TextsOf(results) ==
  IF results = <<>> THEN <<>>
  ELSE (IF Head(results).has_text THEN <<Head(results).text>> ELSE <<>>)
       \o TextsOf(Tail(results))

\* transcribe_audio that turns every failure into an empty transcription
transcribe_audio_swallow(wav, env) ==
  IF ~env.model_exists \/ env.engine_fails
  THEN [ok |-> TRUE, error |-> "", text |-> <<>>]
  ELSE [ok |-> TRUE, error |-> "", text |-> Strip(Join(TextsOf(env.results)), {SPACE})]

\* transcribe_audio: env.model_exists is os.path.exists(VOSK_MODEL_PATH),
\* env.engine_fails an exception of the recognizer, env.results the parsed
\* Result()/FinalResult() objects in order
transcribe_audio(wav, env) ==
  IF ~env.model_exists
  THEN [ok |-> FALSE, error |-> "Could not find Vosk model", text |-> <<>>]
  ELSE IF wav.nchannels # 1 \/ wav.sampwidth # 2 \/ wav.comptype # "NONE"
  THEN [ok |-> FALSE, error |-> "Transcription failed", text |-> <<>>]
  ELSE IF env.engine_fails
  THEN [ok |-> FALSE, error |-> "Transcription failed", text |-> <<>>]
  ELSE [ok |-> TRUE, error |-> "", text |-> Strip(Join(TextsOf(env.results)), {SPACE})]

\* one entry of the master transcript:
\* f"\n\n--- {filename} ({timestamp}) ---\n{transcription}"
MasterEntry(filename, timestamp, transcription) ==
  <<"\n\n", "--- ">> \o filename \o <<" (">> \o timestamp \o <<") ---", "\n">> \o transcription

\* save_to_master_transcript opening the file with 'w' instead of 'a'
save_to_master_transcript_truncate(file, filename, transcription, now) ==
  <<MasterEntry(filename, strftime_iso(now), transcription)>>

\* save_to_master_transcript: open(MASTER_TRANSCRIPT, 'a') and write the entry;
\* the file is kept as the sequence of the writes made to it
save_to_master_transcript(file, filename, transcription, now) ==
  Append(file, MasterEntry(filename, strftime_iso(now), transcription))

\* ---------------------------------------------------------- upload handler
NoNames == [video_filename |-> <<>>, audio_filename |-> <<>>, transcription_filename |-> <<>>]

\* lines 92-100: the three validation checks, "" when the request passes
validate(r) ==
  IF ~r.has_file THEN "No file uploaded"
  ELSE IF r.filename = <<>> THEN "No file selected"
  ELSE IF ~allowed_file(r.filename) THEN "Invalid file type"
  ELSE ""

\* lines 104-106: request.form.get('name', '').strip(), else the upload's stem
custom_name(r) ==
  LET n == Strip(r.name, {SPACE})
  IN IF n = <<>> THEN splitext(secure_filename(r.filename))[1] ELSE n

\* lines 109-110
base_name(r, now) == custom_name(r) \o <<USCORE>> \o strftime_compact(now)

\* lines 113-115: one probe per folder
unique_names(r, now, store) ==
  [video_filename |-> get_unique_filename(base_name(r, now), EXT_MP4, DOMAIN store.videos),
   audio_filename |-> get_unique_filename(base_name(r, now), EXT_WAV, DOMAIN store.audio),
   transcription_filename |->
     get_unique_filename(base_name(r, now), EXT_TXT, DOMAIN store.transcriptions)]

ErrorResponse(code, error) ==
  [route |-> "extract-audio", code |-> code, error |-> error, names |-> NoNames,
   text |-> <<>>]

\* lines 137-147
SuccessResponse(names, transcription) ==
  [route |-> "extract-audio", code |-> 200, error |-> "", names |-> names,
   text |-> transcription]

\* lines 121-152 for a request that passed validation and chose `names`:
\* the store it leaves and its response.  env.ffmpeg is the outcome of the
\* external transcoder; `later` is the clock when the master entry is stamped
process_upload(r, env, names, store, later) ==
  LET s1 == [store EXCEPT !.videos = FileSave(@, names.video_filename, r.content)]
      s2 == [s1 EXCEPT !.audio =
               FileSave(@, names.audio_filename, convert_to_wav(r.content))]
      s2p == [s1 EXCEPT !.audio =
               FileSave(@, names.audio_filename, PartialWav(r.content))]
      t == transcribe_audio(s2.audio[names.audio_filename], env)
      s3 == [s2 EXCEPT !.transcriptions =
               FileSave(@, names.transcription_filename, t.text)]
      s4 == [s3 EXCEPT !.master =
               save_to_master_transcript(@, names.video_filename, t.text, later)]
  IN CASE env.ffmpeg = "error" ->
            [store |-> s1, resp |-> ErrorResponse(500, "FFmpeg processing failed")]
       [] env.ffmpeg = "error_partial" ->
            [store |-> s2p, resp |-> ErrorResponse(500, "FFmpeg processing failed")]
       [] env.ffmpeg = "ok" /\ ~t.ok ->
            [store |-> s2, resp |-> ErrorResponse(500, "Server error")]
       [] OTHER ->
            [store |-> s4, resp |-> SuccessResponse(names, t.text)]

\* extract_audio, the whole handler of POST /api/extract-audio
extract_audio(r, env, store, now, later) ==
  IF validate(r) # ""
  THEN [store |-> store, resp |-> ErrorResponse(400, validate(r)), names |-> NoNames]
  ELSE LET names == unique_names(r, now, store)
           out == process_upload(r, env, names, store, later)
       IN [store |-> out.store, resp |-> out.resp, names |-> names]

\* --------------------------------------------------------- download handlers
\* flask.send_file on a path: the file, or FileNotFoundError when it is missing
send_file(exists) ==
  IF exists THEN [raised |-> "", sent |-> TRUE]
  ELSE [raised |-> "FileNotFoundError", sent |-> FALSE]

DownloadResponse(route, code, error) ==
  [route |-> route, code |-> code, error |-> error, names |-> NoNames, text |-> <<>>]

\* download_master_transcript: exists check, then send_file, except Exception
download_master_transcript(store) ==
  IF store.master = <<>>
  THEN DownloadResponse("download-master-transcript", 404, "Master transcript not found")
  ELSE IF send_file(TRUE).raised # ""
  THEN DownloadResponse("download-master-transcript", 500, send_file(TRUE).raised)
  ELSE DownloadResponse("download-master-transcript", 200, "")

\* download_transcription without its except clause
download_transcription_uncaught(filename, store) ==
  LET sf == send_file(filename \in DOMAIN store.transcriptions)
  IN IF sf.raised # ""
     THEN DownloadResponse("download-transcription", 500, sf.raised)
     ELSE DownloadResponse("download-transcription", 200, "")

\* download_transcription: send_file, except FileNotFoundError; any other
\* exception leaves the handler and the framework answers 500
download_transcription(filename, store) ==
  LET sf == send_file(filename \in DOMAIN store.transcriptions)
  IN IF sf.raised = "FileNotFoundError"
     THEN DownloadResponse("download-transcription", 404, "Transcription file not found")
     ELSE IF sf.raised # ""
     THEN DownloadResponse("download-transcription", 500, sf.raised)
     ELSE DownloadResponse("download-transcription", 200, "")

\* -------------------------------------------------------------------- state
VARIABLES
  store,      \* the uploads folder: videos, audio, transcriptions, master transcript
  clock,      \* datetime.now(), in seconds
  nreq,       \* requests handled so far
  last,       \* the last POST /api/extract-audio: its request, environment, names
  resp,       \* the last HTTP response
  successes,  \* history: video filename and text of every request answered 200
  pc,         \* position of each in-flight request (interleaved handling)
  loc,        \* locals of each in-flight request (interleaved handling)
  probe       \* one call of get_unique_filename: its arguments and result

vars == <<store, clock, nreq, last, resp, successes, pc, loc, probe>>

Workers == {1, 2}

Upload(filename, name) == [has_file |-> TRUE, filename |-> filename, name |-> name]

\* the requests tried: request.files['file'].filename and request.form['name']
UploadRequests ==
  { [has_file |-> FALSE, filename |-> <<>>, name |-> <<>>],
    Upload(<<>>, <<>>),
    Upload(<<"clip">>, <<SPACE, "talk">>),
    Upload(<<"notes", DOT, "txt">>, <<>>),
    Upload(<<"clip", DOT, "AVI">>, <<>>),
    Upload(<<"talk", DOT, "mp4">>, <<SPACE, "talk">>),
    Upload(<<"talk", DOT, "mp4">>, <<"my", DOT, "talk">>) }

WithContent(r, c) ==
  [has_file |-> r.has_file, filename |-> r.filename, name |-> r.name, content |-> c]

SilentRun == << [has_text |-> TRUE, text |-> <<>>] >>
SpeechRun ==
  << [has_text |-> TRUE, text |-> <<"hello">>],
     [has_text |-> FALSE, text |-> <<>>],
     [has_text |-> TRUE, text |-> <<"world">>],
     [has_text |-> TRUE, text |-> <<>>] >>

DefaultEnv ==
  [ffmpeg |-> "ok", model_exists |-> TRUE, engine_fails |-> FALSE, results |-> SilentRun]

\* what the transcoder, the model directory and the recognizer may do
Environments ==
  { DefaultEnv,
    [DefaultEnv EXCEPT !.results = SpeechRun],
    [DefaultEnv EXCEPT !.ffmpeg = "error"],
    [DefaultEnv EXCEPT !.ffmpeg = "error_partial"],
    [DefaultEnv EXCEPT !.model_exists = FALSE],
    [DefaultEnv EXCEPT !.engine_fails = TRUE] }

NoRequest == [has_file |-> FALSE, filename |-> <<>>, name |-> <<>>, content |-> 0]

NoUpload ==
  [r |-> NoRequest, env |-> DefaultEnv, names |-> NoNames, timestamp |-> <<>>,
   validated |-> FALSE, code |-> 0]

NoResponse == [route |-> "", code |-> 0, error |-> "", names |-> NoNames, text |-> <<>>]

NoLocals == [r |-> NoRequest, env |-> DefaultEnv, names |-> NoNames, text |-> <<>>,
             resp |-> NoResponse]

NoProbe == [base_name |-> <<>>, extension |-> <<>>, folder |-> {}, result |-> <<>>,
            called |-> FALSE]

\* lines 22-25: the folders exist and are empty, no master transcript yet
EmptyStore ==
  [videos |-> EmptyFolder, audio |-> EmptyFolder, transcriptions |-> EmptyFolder,
   master |-> <<>>]

Init ==
  /\ store = EmptyStore
  /\ clock = 0
  /\ nreq = 0
  /\ last = NoUpload
  /\ resp = NoResponse
  /\ successes = <<>>
  /\ pc = [w \in Workers |-> "idle"]
  /\ loc = [w \in Workers |-> NoLocals]
  /\ probe = NoProbe

\* ------------------------------------------- requests handled one at a time
\* a second passes
Tick ==
  /\ clock < MaxClock
  /\ clock' = clock + 1
  /\ UNCHANGED <<store, nreq, last, resp, successes, pc, loc, probe>>

\* POST /api/extract-audio, from the request to the response
ExtractAudio ==
  /\ nreq < MaxRequests
  /\ \E r0 \in UploadRequests, env \in Environments :
       LET r == WithContent(r0, nreq + 1)
           out == extract_audio(r, env, store, clock, clock)
       IN /\ validate(r) = "" \/ env = DefaultEnv
          /\ store' = out.store
          /\ resp' = out.resp
          /\ last' = [r |-> r, env |-> env, names |-> out.names,
                      timestamp |-> strftime_compact(clock),
                      validated |-> (validate(r) = ""), code |-> out.resp.code]
          /\ successes' = IF out.resp.code = 200
                          THEN Append(successes, [video_filename |-> out.names.video_filename,
                                                  text |-> out.resp.text])
                          ELSE successes
          /\ nreq' = nreq + 1
  /\ UNCHANGED <<clock, pc, loc, probe>>

\* GET /api/download-master-transcript
DownloadMasterTranscript ==
  /\ nreq < MaxRequests
  /\ resp' = download_master_transcript(store)
  /\ nreq' = nreq + 1
  /\ UNCHANGED <<store, clock, last, successes, pc, loc, probe>>

\* the filenames asked of GET /api/download-transcription/<filename>
DownloadNames ==
  (DOMAIN store.transcriptions) \cup (DOMAIN store.videos) \cup { <<"missing", DOT, "txt">> }

\* GET /api/download-transcription/<filename>
DownloadTranscription ==
  /\ nreq < MaxRequests
  /\ \E filename \in DownloadNames :
       resp' = [download_transcription(filename, store) EXCEPT
                  !.names.transcription_filename = filename]
  /\ nreq' = nreq + 1
  /\ UNCHANGED <<store, clock, last, successes, pc, loc, probe>>

Next == Tick \/ ExtractAudio \/ DownloadMasterTranscript \/ DownloadTranscription

Spec == Init /\ [][Next]_vars

\* ------------------------------------------ two requests handled interleaved
\* the framework's worker model runs extract_audio for several requests at
\* once; each file-system access of the handler is one step

\* lines 92-119: validation and the choice of the three filenames
Begin(w) ==
  /\ pc[w] = "idle"
  /\ \E r0 \in UploadRequests, env \in Environments :
       LET r == WithContent(r0, w)
       IN /\ validate(r) = "" \/ env = DefaultEnv
          /\ IF validate(r) # ""
             THEN /\ loc' = [loc EXCEPT ![w] = [NoLocals EXCEPT !.r = r,
                                 !.resp = ErrorResponse(400, validate(r))]]
                  /\ pc' = [pc EXCEPT ![w] = "done"]
             ELSE /\ loc' = [loc EXCEPT ![w] = [NoLocals EXCEPT !.r = r, !.env = env,
                                 !.names = unique_names(r, clock, store)]]
                  /\ pc' = [pc EXCEPT ![w] = "save"]
  /\ UNCHANGED <<store, clock, nreq, last, resp, successes, probe>>

\* line 122: file.save(video_path)
SaveVideo(w) ==
  /\ pc[w] = "save"
  /\ store' = [store EXCEPT !.videos =
                 FileSave(@, loc[w].names.video_filename, loc[w].r.content)]
  /\ pc' = [pc EXCEPT ![w] = "convert"]
  /\ UNCHANGED <<clock, nreq, last, resp, successes, loc, probe>>

\* line 125: convert_to_wav(video_path, audio_path), reading the stored video
Convert(w) ==
  /\ pc[w] = "convert"
  /\ LET input == store.videos[loc[w].names.video_filename]
         af == loc[w].names.audio_filename
     IN CASE loc[w].env.ffmpeg = "ok" ->
               /\ store' = [store EXCEPT !.audio = FileSave(@, af, convert_to_wav(input))]
               /\ pc' = [pc EXCEPT ![w] = "transcribe"]
               /\ loc' = loc
          [] loc[w].env.ffmpeg = "error_partial" ->
               /\ store' = [store EXCEPT !.audio = FileSave(@, af, PartialWav(input))]
               /\ pc' = [pc EXCEPT ![w] = "done"]
               /\ loc' = [loc EXCEPT ![w].resp =
                            ErrorResponse(500, "FFmpeg processing failed")]
          [] OTHER ->
               /\ store' = store
               /\ pc' = [pc EXCEPT ![w] = "done"]
               /\ loc' = [loc EXCEPT ![w].resp =
                            ErrorResponse(500, "FFmpeg processing failed")]
  /\ UNCHANGED <<clock, nreq, last, resp, successes, probe>>

\* line 128: transcribe_audio(audio_path), reading the stored audio
Transcribe(w) ==
  /\ pc[w] = "transcribe"
  /\ LET t == transcribe_audio(store.audio[loc[w].names.audio_filename], loc[w].env)
     IN IF t.ok
        THEN /\ loc' = [loc EXCEPT ![w].text = t.text]
             /\ pc' = [pc EXCEPT ![w] = "write"]
        ELSE /\ loc' = [loc EXCEPT ![w].resp = ErrorResponse(500, "Server error")]
             /\ pc' = [pc EXCEPT ![w] = "done"]
  /\ UNCHANGED <<store, clock, nreq, last, resp, successes, probe>>

\* lines 131-132: the individual transcription
WriteTranscription(w) ==
  /\ pc[w] = "write"
  /\ store' = [store EXCEPT !.transcriptions =
                 FileSave(@, loc[w].names.transcription_filename, loc[w].text)]
  /\ pc' = [pc EXCEPT ![w] = "append"]
  /\ UNCHANGED <<clock, nreq, last, resp, successes, loc, probe>>

\* lines 135-147: the master transcript entry and the response
AppendMaster(w) ==
  /\ pc[w] = "append"
  /\ store' = [store EXCEPT !.master =
                 save_to_master_transcript(@, loc[w].names.video_filename, loc[w].text, clock)]
  /\ loc' = [loc EXCEPT ![w].resp = SuccessResponse(loc[w].names, loc[w].text)]
  /\ pc' = [pc EXCEPT ![w] = "done"]
  /\ UNCHANGED <<clock, nreq, last, resp, successes, probe>>

BeginStep == \E w \in Workers : Begin(w)
SaveVideoStep == \E w \in Workers : SaveVideo(w)
ConvertStep == \E w \in Workers : Convert(w)
TranscribeStep == \E w \in Workers : Transcribe(w)
WriteTranscriptionStep == \E w \in Workers : WriteTranscription(w)
AppendMasterStep == \E w \in Workers : AppendMaster(w)

NextRace ==
  \/ Tick
  \/ BeginStep
  \/ SaveVideoStep
  \/ ConvertStep
  \/ TranscribeStep
  \/ WriteTranscriptionStep
  \/ AppendMasterStep

SpecRace == Init /\ [][NextRace]_vars

\* ------------------------------------------- get_unique_filename on its own
ProbeBaseNames ==
  { <<"talk">>, <<"talk", USCORE, "1">>, <<"my", DOT, "talk">>, <<DOT, "talk">>,
    <<"a", DOT, "b", SEP, "talk">>, base_name(NoRequest, 0) \o <<"talk">> }

ProbeExtensions == { EXT_MP4, EXT_TXT }

\* the names a folder may hold: the first candidates of the base name as given
\* and of the base name without its extension
ProbeUniverse(b, e) ==
  { Candidate(b, k, e) : k \in 0..2 } \cup { Candidate(splitext(b)[1], k, e) : k \in 0..2 }

InitProbe ==
  /\ store = EmptyStore
  /\ clock = 0
  /\ nreq = 0
  /\ last = NoUpload
  /\ resp = NoResponse
  /\ successes = <<>>
  /\ pc = [w \in Workers |-> "idle"]
  /\ loc = [w \in Workers |-> NoLocals]
  /\ \E b \in ProbeBaseNames, e \in ProbeExtensions :
       \E folder \in SUBSET ProbeUniverse(b, e) :
         probe = [base_name |-> b, extension |-> e, folder |-> folder, result |-> <<>>,
                  called |-> FALSE]

CallGetUniqueFilename ==
  /\ ~probe.called
  /\ probe' = [probe EXCEPT
                 !.result = get_unique_filename(probe.base_name, probe.extension, probe.folder),
                 !.called = TRUE]
  /\ UNCHANGED <<store, clock, nreq, last, resp, successes, pc, loc>>

NextProbe == CallGetUniqueFilename

SpecProbe == InitProbe /\ [][NextProbe]_vars

\* ------------------------------------------------------------------ claims
\* a step that handles one POST /api/extract-audio
UploadStep == nreq' = nreq + 1 /\ resp'.route = "extract-audio"

\* a step that handles one download request
DownloadStep ==
  nreq' = nreq + 1 /\ resp'.route \in {"download-transcription", "download-master-transcript"}

\* the base name a handled upload was given: custom name, "_", timestamp
BaseOf(u) == custom_name(u.r) \o <<USCORE>> \o u.timestamp

\* the name of a file without its extension, and its extension
StemOf(filename) == SubSeq(filename, 1, Len(filename) - 2)
ExtOf(filename) == SubSeq(filename, Len(filename) - 1, Len(filename))

\* s is a prefix of t
IsPrefix(s, t) == Len(s) <= Len(t) /\ SubSeq(t, 1, Len(s)) = s

\* C1: get_unique_filename returns a name that is not in the folder, and it is
\* the first name of base+ext, base_1+ext, base_2+ext, ... that is not in it.
C1_FirstFreeNameOfBase ==
  probe.called =>
    /\ probe.result \notin probe.folder
    /\ \E k \in 0..Cardinality(probe.folder) :
         /\ probe.result = Candidate(probe.base_name, k, probe.extension)
         /\ \A j \in 0..(k - 1) :
              Candidate(probe.base_name, j, probe.extension) \in probe.folder

\* C2: every successful upload's audio file has the name of its stored video,
\* numeric suffix included, with the extension .wav instead.
C2_AudioNamedAfterVideo ==
  last.code = 200 =>
    /\ StemOf(last.names.audio_filename) = StemOf(last.names.video_filename)
    /\ ExtOf(last.names.audio_filename) = EXT_WAV

\* C3 as claimed: two uploads in a row with the same requested name store two
\* distinct video names, the second being the first one's base suffixed _1,
\* whatever the time between them.
C3_SecondSuffixedAlways ==
  [][ (UploadStep /\ last.validated /\ last'.validated
         /\ custom_name(last'.r) = custom_name(last.r))
      => /\ last'.names.video_filename # last.names.video_filename
         /\ last'.names.video_filename =
              Candidate(StemOf(last.names.video_filename), 1, EXT_MP4) ]_vars

\* C3 as amended: two uploads in a row with the same requested name store two
\* distinct video names; the second is the first one's base suffixed _1 when
\* both carry the same timestamp, the first was stored without a suffix and no
\* file of the suffixed name exists yet.
C3_SecondSuffixedInSameSecond ==
  [][ (UploadStep /\ last.validated /\ last'.validated
         /\ custom_name(last'.r) = custom_name(last.r))
      => /\ last'.names.video_filename # last.names.video_filename
         /\ ( /\ last'.timestamp = last.timestamp
              /\ last.names.video_filename = Candidate(splitext(BaseOf(last))[1], 0, EXT_MP4)
              /\ Candidate(StemOf(last.names.video_filename), 1, EXT_MP4)
                   \notin DOMAIN store.videos )
            => last'.names.video_filename =
                 Candidate(StemOf(last.names.video_filename), 1, EXT_MP4) ]_vars

\* two uploads of one name in one second: the second is stored suffixed _1
C3_Witness ==
  /\ nreq = 2
  /\ last.validated
  /\ last.names.video_filename = Candidate(splitext(BaseOf(last))[1], 1, EXT_MP4)
  /\ Candidate(splitext(BaseOf(last))[1], 0, EXT_MP4) \in DOMAIN store.videos

\* the upload's filename ends in a dot and an allowed extension
HasAllowedExtension(filename) ==
  /\ Len(filename) >= 2
  /\ filename[Len(filename) - 1] = DOT
  /\ LowerTok(filename[Len(filename)]) \in ALLOWED_EXTENSIONS

\* C4: an upload with no file part, an empty filename or an extension outside
\* the allowed set is answered 400 and changes nothing in the store; an upload
\* that only lacks the name field is not answered 400.
C4_ValidationRejectsWithoutEffect ==
  [][ UploadStep =>
        /\ ( \/ ~last'.r.has_file
             \/ last'.r.filename = <<>>
             \/ ~HasAllowedExtension(last'.r.filename) )
           => (resp'.code = 400 /\ store' = store)
        /\ ( /\ last'.r.has_file
             /\ HasAllowedExtension(last'.r.filename)
             /\ last'.r.name = <<>> )
           => resp'.code # 400 ]_vars

\* a rejected upload after files were stored, and nothing of it in the store
C4_Witness ==
  /\ resp.route = "extract-audio"
  /\ resp.code = 400
  /\ last.r.has_file
  /\ last.r.filename # <<>>
  /\ DOMAIN store.videos # {}

\* the transcription of the upload fails: no model, or the recognizer raises
TranscriptionFails(u) ==
  u.validated /\ u.env.ffmpeg = "ok" /\ (~u.env.model_exists \/ u.env.engine_fails)

\* C5: when transcription fails after the audio was extracted, the response
\* is 500 with an error, the request's video and audio files are on disk, no
\* transcription file is created and the master transcript gets no entry.
C5_TranscriptionFailureKeepsMedia ==
  [][ (UploadStep /\ TranscriptionFails(last')) =>
        /\ resp'.code = 500
        /\ resp'.error # ""
        /\ last'.names.video_filename \in DOMAIN store'.videos
        /\ store'.videos[last'.names.video_filename] = last'.r.content
        /\ last'.names.audio_filename \in DOMAIN store'.audio
        /\ store'.audio[last'.names.audio_filename].src = last'.r.content
        /\ store'.transcriptions = store.transcriptions
        /\ store'.master = store.master ]_vars

\* a failed transcription whose video and audio stayed on disk
C5_Witness ==
  /\ TranscriptionFails(last)
  /\ last.code = 500
  /\ last.names.audio_filename \in DOMAIN store.audio
  /\ last.names.transcription_filename \notin DOMAIN store.transcriptions

\* the entry names the file in its header and ends with the text
EntryOf(entry, filename, text) ==
  /\ \E i \in 1..Len(entry) :
       /\ SubSeq(entry, i, i + Len(filename) - 1) = filename
       /\ i + Len(filename) - 1 < Len(entry) - Len(text)
  /\ SubSeq(entry, Len(entry) - Len(text) + 1, Len(entry)) = text

\* C6: the master transcript holds one entry per upload answered 200, in the
\* order of the requests, each naming the stored video file followed by the
\* transcription; a failed request adds none, and every step leaves the old
\* content as a prefix.
C6_MasterTranscriptIsTheLogOfSuccesses ==
  /\ [] ( /\ Len(store.master) = Len(successes)
          /\ \A i \in 1..Len(successes) :
               EntryOf(store.master[i], successes[i].video_filename, successes[i].text) )
  /\ [][ /\ IsPrefix(store.master, store'.master)
         /\ (UploadStep /\ resp'.code = 200)
              => /\ Len(store'.master) = Len(store.master) + 1
                 /\ EntryOf(store'.master[Len(store'.master)],
                            last'.names.video_filename, resp'.text)
         /\ ~(UploadStep /\ resp'.code = 200) => store'.master = store.master ]_vars

\* two successful uploads and a failed one never happened in between
C6_Witness ==
  /\ Len(store.master) = 2
  /\ Len(successes) = 2
  /\ successes[1].video_filename # successes[2].video_filename
  /\ successes[2].text # <<>>

C8_VideoKeepsOriginalExtension ==
  last.validated =>
    Lower(ExtOf(last.names.video_filename)) = Lower(ExtOf(last.r.filename))

\* C9: nothing stops a request that has chosen its names: its save step writes
\* its upload under the chosen video name whether or not the file exists, so
\* two requests that chose the same names both succeed and one overwrites the
\* other.
C9_SaveOverwritesWithoutLock ==
  [][ \A w \in Workers :
        (pc[w] = "save" /\ pc'[w] # "save") =>
          /\ pc'[w] = "convert"
          /\ store'.videos[loc[w].names.video_filename] = loc[w].r.content ]_vars

\* both requests answered 200 with the same three filenames, one video on disk
C9_Witness ==
  /\ \A w \in Workers : pc[w] = "done" /\ loc[w].resp.code = 200
  /\ loc[1].resp.names = loc[2].resp.names
  /\ loc[1].r.content # loc[2].r.content
  /\ Cardinality(DOMAIN store.videos) = 1
  /\ Cardinality(DOMAIN store.audio) = 1
  /\ Cardinality(DOMAIN store.transcriptions) = 1
  /\ Len(store.master) = 2

\* every file of folder f is in g with the same content
Kept(f, g) == \A n \in DOMAIN f : n \in DOMAIN g /\ g[n] = f[n]

\* C10: with requests handled one at a time, a stored video, audio or
\* transcription file is never deleted or rewritten.
C10_StoredFilesNeverChange ==
  [][ /\ Kept(store.videos, store'.videos)
      /\ Kept(store.audio, store'.audio)
      /\ Kept(store.transcriptions, store'.transcriptions) ]_vars

\* an upload succeeded while an earlier failed request's files are on disk
C10_Witness ==
  /\ last.code = 200
  /\ \E a \in DOMAIN store.audio : ~store.audio[a].complete
  /\ Cardinality(DOMAIN store.videos) = 2

====
